---- MODULE Spec2Model ----
(***************************************************************************)
(* Model of resume_tailor_script.py: the job-profile extraction, the skill *)
(* relevance filter, the skills table renderer, the template filler and    *)
(* the tailor_for_job pipeline.                                            *)
(*                                                                         *)
(* A Python str is a sequence of atoms.  An atom is one character ("s",    *)
(* " ", "\n") or an indivisible piece of markup or of a key ("{{",         *)
(* "SUMMARY", "<br>", "required_skills").  str.lower, str.strip, `in` and  *)
(* str.replace work on these sequences as they work on characters.         *)
(***************************************************************************)
EXTENDS Integers, Sequences, FiniteSets, TLC

VARIABLES pc, text, job_profile, master, filtered_skills, rows,
          skills_table_html, summary, projects, experience,
          cover_letter_text, template, profile, resume_html,
          cover_letter_html, files, calls, failed

vars == <<pc, text, job_profile, master, filtered_skills, rows,
          skills_table_html, summary, projects, experience,
          cover_letter_text, template, profile, resume_html,
          cover_letter_html, files, calls, failed>>

\* pc is the step tailor_for_job is at; the other variables up to
\* cover_letter_html are its locals and the inputs its helpers load (text is
\* the response to the extraction call, master skills.json, template
\* resume_template.html, profile the environment); rows is the row list of
\* generate_skills_table_html; files are the output files written so far;
\* calls are the call_llm calls made so far, by caller; failed is the step
\* whose call raised the exception that ended the run, "" while there is none

-----------------------------------------------------------------------------
(* Bounds *)

\* number of skills of an enumerated catalog, over its two categories
MaxSkills == 2
\* number of job terms spread over the fields of an enumerated job profile
MaxTerms == 1
\* longest skill list of one category of an enumerated filtered mapping
MaxTableSkills == 3
\* longest enumerated language-model response, in atoms
MaxTextLen == 3
\* number of parts an enumerated resume template is put together from
MaxParts == 2

-----------------------------------------------------------------------------
(* Python strings *)

\* str.lower, per character
LowerChar(c) ==
    CASE c = "A" -> "a" [] c = "B" -> "b" [] c = "C" -> "c" [] c = "D" -> "d"
      [] c = "G" -> "g" [] c = "J" -> "j" [] c = "L" -> "l" [] c = "M" -> "m"
      [] c = "Q" -> "q" [] c = "S" -> "s" [] c = "V" -> "v"
      [] OTHER -> c

Lower(s) == [i \in 1..Len(s) |-> LowerChar(s[i])]

\* the characters str.strip removes
Whitespace == {" ", "\t", "\n"}

RECURSIVE LStrip(_)
LStrip(s) ==
    IF s # <<>> /\ Head(s) \in Whitespace THEN LStrip(Tail(s)) ELSE s

RECURSIVE RStrip(_)
RStrip(s) ==
    IF s # <<>> /\ s[Len(s)] \in Whitespace
    THEN RStrip(SubSeq(s, 1, Len(s) - 1))
    ELSE s

Strip(s) == RStrip(LStrip(s))

\* Python's `sub in s` on strings
Contains(sub, s) ==
    \E i \in 0..(Len(s) - Len(sub)) : SubSeq(s, i + 1, i + Len(sub)) = sub

\* does s start with sub at index i (1-based)
MatchAt(s, sub, i) ==
    /\ i + Len(sub) - 1 <= Len(s)
    /\ SubSeq(s, i, i + Len(sub) - 1) = sub

\* str.replace(old, new) for a non-empty old: leftmost, non-overlapping
RECURSIVE Replace(_, _, _)
Replace(s, old, new) ==
    IF s = <<>> THEN <<>>
    ELSE IF MatchAt(s, old, 1)
         THEN new \o Replace(SubSeq(s, Len(old) + 1, Len(s)), old, new)
         ELSE <<Head(s)>> \o Replace(Tail(s), old, new)

\* "\n".join(parts)
RECURSIVE JoinLines(_)
JoinLines(parts) ==
    IF parts = <<>> THEN <<>>
    ELSE IF Len(parts) = 1 THEN parts[1]
         ELSE parts[1] \o <<"\n">> \o JoinLines(Tail(parts))

-----------------------------------------------------------------------------
(* JSON values, as json.loads builds them *)

JNull == [t |-> "null", v |-> <<>>]
JNum(n) == [t |-> "num", v |-> <<n>>]
JStr(s) == [t |-> "str", v |-> s]
JList(xs) == [t |-> "list", v |-> xs]
\* a dict is its items in insertion order: <<key, value>> pairs, keys distinct
JDict(items) == [t |-> "dict", v |-> items]

\* a key written in the source is one atom
Key(name) == <<name>>

DictHas(d, k) == \E i \in 1..Len(d.v) : d.v[i][1] = k

DictAt(d, k) == d.v[CHOOSE i \in 1..Len(d.v) : d.v[i][1] = k][2]

\* dict.get(key, default)
DictGet(d, k, default) == IF DictHas(d, k) THEN DictAt(d, k) ELSE default

-----------------------------------------------------------------------------
(* Skill filtering *)

normalize_skill(s) == Strip(Lower(s))

\* the keys build_relevant_skills reads job terms from, in the code's order
TermKeys == <<"required_skills", "preferred_skills", "tools", "keywords">>

ALWAYS_KEEP ==
    { <<"g", "i", "t">>,
      <<"g", "i", "t", "h", "u", "b">>,
      <<"d", "e", "b", "u", "g", "g", "i", "n", "g">>,
      <<"r", "e", "a", "c", "t">>,
      <<"n", "e", "x", "t", ".", "j", "s">>,
      <<"n", "o", "d", "e", ".", "j", "s">>,
      <<"e", "x", "p", "r", "e", "s", "s", ".", "j", "s">>,
      <<"s", "q", "l">>,
      <<"m", "y", "s", "q", "l">>,
      <<"m", "o", "n", "g", "o", "d", "b">> }

\* what a Python `for x in v` visits; a value that cannot be iterated raises
Iterable(v) == v.t \in {"list", "str", "dict"}

IterItems(v) ==
    CASE v.t = "list" -> v.v
      [] v.t = "str" -> [i \in 1..Len(v.v) |-> JStr(<<v.v[i]>>)]
      [] v.t = "dict" -> [i \in 1..Len(v.v) |-> JStr(v.v[i][1])]
      [] OTHER -> <<>>

\* the value job_profile.get(key, []) yields for one of the term keys
TermField(jp, key) == DictGet(jp, Key(key), JList(<<>>))

\* building job_terms raises: job_profile has no .get, a field cannot be
\* iterated, or an item has no .lower
JobTermsRaise(jp) ==
    \/ jp.t # "dict"
    \/ \E k \in 1..Len(TermKeys) :
          LET v == TermField(jp, TermKeys[k]) IN
             \/ ~Iterable(v)
             \/ \E i \in 1..Len(IterItems(v)) : IterItems(v)[i].t # "str"

JobTerms(jp) ==
    UNION { { normalize_skill(IterItems(TermField(jp, TermKeys[k]))[i].v) :
                 i \in 1..Len(IterItems(TermField(jp, TermKeys[k]))) } :
            k \in 1..Len(TermKeys) }

\* the condition with the `norm in term` direction left out
Retained_OneWay(skill, job_terms) ==
    LET norm == normalize_skill(skill) IN
       \/ \E term \in job_terms : Contains(term, norm)
       \/ norm \in ALWAYS_KEEP

\* the condition with the always-keep test left out
Retained_NoAlwaysKeep(skill, job_terms) ==
    LET norm == normalize_skill(skill) IN
       \E term \in job_terms : Contains(term, norm) \/ Contains(norm, term)

\* the condition of the `if` that keeps a skill
Retained(skill, job_terms) ==
    LET norm == normalize_skill(skill) IN
       \/ \E term \in job_terms : Contains(term, norm) \/ Contains(norm, term)
       \/ norm \in ALWAYS_KEEP

\* the inner loop: the kept list of one category
KeptSkills(skills, job_terms) ==
    SelectSeq(skills, LAMBDA skill : Retained(skill, job_terms))

\* the outer loop without the `if kept:` test
RECURSIVE FilterCatalog_KeepsEmpty(_, _)
FilterCatalog_KeepsEmpty(cats, job_terms) ==
    IF cats = <<>> THEN <<>>
    ELSE <<<<Head(cats)[1], KeptSkills(Head(cats)[2], job_terms)>>>>
            \o FilterCatalog_KeepsEmpty(Tail(cats), job_terms)

\* the outer loop over master.items(); a category is a <<name, skills>> pair
RECURSIVE FilterCatalog(_, _)
FilterCatalog(cats, job_terms) ==
    IF cats = <<>> THEN <<>>
    ELSE LET kept == KeptSkills(Head(cats)[2], job_terms) IN
            (IF kept # <<>> THEN <<<<Head(cats)[1], kept>>>> ELSE <<>>)
               \o FilterCatalog(Tail(cats), job_terms)

build_relevant_skills(jp, catalog) == FilterCatalog(catalog, JobTerms(jp))

-----------------------------------------------------------------------------
(* Skills table HTML *)

CategoryRow(category) ==
    <<"<tr><td class=\"category\">">> \o category \o <<"</td><td></td></tr>">>

SkillRow(left, right) ==
    <<"<tr><td class='skill-item'>">> \o left
       \o <<"</td>", "<td class='skill-item'>">> \o right \o <<"</td></tr>">>

\* the loop stopping one short: range(i, len(skills) - 1, 2)
RECURSIVE SkillRowsFrom_StopsShort(_, _)
SkillRowsFrom_StopsShort(skills, i) ==
    IF i >= Len(skills) - 1 THEN <<>>
    ELSE <<SkillRow(skills[i + 1], skills[i + 2])>>
            \o SkillRowsFrom_StopsShort(skills, i + 2)

\* for i in range(i, len(skills), 2): one row per step; i is 0-based
RECURSIVE SkillRowsFrom(_, _)
SkillRowsFrom(skills, i) ==
    IF i >= Len(skills) THEN <<>>
    ELSE LET left == skills[i + 1]
             right == IF i + 1 < Len(skills) THEN skills[i + 2] ELSE <<>>
         IN <<SkillRow(left, right)>> \o SkillRowsFrom(skills, i + 2)

\* the rows list after the loop over filtered_skills.items()
RECURSIVE TableRows(_)
TableRows(filtered) ==
    IF filtered = <<>> THEN <<>>
    ELSE <<CategoryRow(Head(filtered)[1])>>
            \o SkillRowsFrom(Head(filtered)[2], 0)
            \o TableRows(Tail(filtered))

\* "<table>\n" + "\n".join(rows) + "\n</table>"
TableHtml(rs) == <<"<table>", "\n">> \o JoinLines(rs) \o <<"\n", "</table>">>

generate_skills_table_html(filtered) == TableHtml(TableRows(filtered))

-----------------------------------------------------------------------------
(* json.loads on a text: whitespace, null, a number, a string, an array,  *)
(* an object; anything else raises                                        *)

JsonWhitespace == {" ", "\t", "\n", "\r"}

Digits == {"0", "1"}

RECURSIVE SkipWs(_)
SkipWs(s) ==
    IF s # <<>> /\ Head(s) \in JsonWhitespace THEN SkipWs(Tail(s)) ELSE s

ParseFail == [ok |-> FALSE, val |-> JNull, rest |-> <<>>]

ParseOk(val, rest) == [ok |-> TRUE, val |-> val, rest |-> rest]

\* index of the first `"` of s, 0 when there is none
RECURSIVE QuoteIndex(_, _)
QuoteIndex(s, i) ==
    IF i > Len(s) THEN 0
    ELSE IF s[i] = "\"" THEN i ELSE QuoteIndex(s, i + 1)

\* s starts right after an opening quote
ParseString(s) ==
    LET q == QuoteIndex(s, 1) IN
       IF q = 0 THEN ParseFail
       ELSE ParseOk(JStr(SubSeq(s, 1, q - 1)), SubSeq(s, q + 1, Len(s)))

\* d[key] = value on a dict's items: a repeated key keeps its place
DictPut(items, k, val) ==
    IF \E i \in 1..Len(items) : items[i][1] = k
    THEN [i \in 1..Len(items) |->
             IF items[i][1] = k THEN <<k, val>> ELSE items[i]]
    ELSE Append(items, <<k, val>>)

RECURSIVE ParseValue(_)
RECURSIVE ParseElems(_, _)
RECURSIVE ParseMembers(_, _)

\* s starts at an element of an array; acc holds the elements read so far
ParseElems(s, acc) ==
    LET r == ParseValue(s) IN
       IF ~r.ok THEN ParseFail
       ELSE LET t == SkipWs(r.rest) IN
               IF t = <<>> THEN ParseFail
               ELSE IF Head(t) = "," THEN ParseElems(Tail(t), Append(acc, r.val))
               ELSE IF Head(t) = "]" THEN ParseOk(JList(Append(acc, r.val)), Tail(t))
               ELSE ParseFail

\* s starts at a member of an object; acc holds the items read so far
ParseMembers(s, acc) ==
    LET t == SkipWs(s) IN
       IF t = <<>> \/ Head(t) # "\"" THEN ParseFail
       ELSE LET k == ParseString(Tail(t)) IN
          IF ~k.ok THEN ParseFail
          ELSE LET u == SkipWs(k.rest) IN
             IF u = <<>> \/ Head(u) # ":" THEN ParseFail
             ELSE LET r == ParseValue(Tail(u)) IN
                IF ~r.ok THEN ParseFail
                ELSE LET w == SkipWs(r.rest)
                         items == DictPut(acc, k.val.v, r.val)
                     IN IF w = <<>> THEN ParseFail
                        ELSE IF Head(w) = "," THEN ParseMembers(Tail(w), items)
                        ELSE IF Head(w) = "}" THEN ParseOk(JDict(items), Tail(w))
                        ELSE ParseFail

ParseValue(s0) ==
    LET s == SkipWs(s0) IN
       IF s = <<>> THEN ParseFail
       ELSE IF Head(s) = "null" THEN ParseOk(JNull, Tail(s))
       ELSE IF Head(s) \in Digits THEN ParseOk(JNum(Head(s)), Tail(s))
       ELSE IF Head(s) = "\"" THEN ParseString(Tail(s))
       ELSE IF Head(s) = "["
            THEN LET t == SkipWs(Tail(s)) IN
                    IF t # <<>> /\ Head(t) = "]" THEN ParseOk(JList(<<>>), Tail(t))
                    ELSE ParseElems(t, <<>>)
       ELSE IF Head(s) = "{"
            THEN LET t == SkipWs(Tail(s)) IN
                    IF t # <<>> /\ Head(t) = "}" THEN ParseOk(JDict(<<>>), Tail(t))
                    ELSE ParseMembers(t, <<>>)
       ELSE ParseFail

\* json.loads(text) raises
JsonLoadsRaises(txt) ==
    LET r == ParseValue(txt) IN ~r.ok \/ SkipWs(r.rest) # <<>>

\* json.loads(text), when it does not raise
JsonLoads(txt) == ParseValue(txt).val

-----------------------------------------------------------------------------
(* Job profile extraction *)

\* the dict literal of the except branch
DefaultProfile ==
    JDict(<< <<Key("required_skills"), JList(<<>>)>>,
             <<Key("preferred_skills"), JList(<<>>)>>,
             <<Key("tools"), JList(<<>>)>>,
             <<Key("responsibilities"), JList(<<>>)>>,
             <<Key("soft_skills"), JList(<<>>)>>,
             <<Key("keywords"), JList(<<>>)>>,
             <<Key("job_title"), JStr(<<>>)>>,
             <<Key("company_name"), JStr(<<>>)>> >>)

\* the function without its try/except
extract_job_profile_NoExcept(txt) ==
    [raised |-> JsonLoadsRaises(txt), value |-> JsonLoads(txt)]

\* try: return json.loads(text)  except: return {...}
\* `raised` tells whether an exception leaves the function; the bare except
\* catches whatever json.loads raises
extract_job_profile(txt) ==
    IF JsonLoadsRaises(txt)
    THEN [raised |-> FALSE, value |-> DefaultProfile]
    ELSE [raised |-> FALSE, value |-> JsonLoads(txt)]

-----------------------------------------------------------------------------
(* Template filling *)

\* f"{{{{{key}}}}}" and the literals "{{SUMMARY}}", ...
Token(key) == <<"{{", key, "}}">>

\* the keys of load_profile's dict, in its order
ProfileKeys ==
    <<"FIRST_NAME", "LAST_NAME", "EMAIL", "PHONE", "ADDRESS", "GITHUB",
      "LINKEDIN">>

\* the loop over profile.items(); items are <<key, value>> pairs
RECURSIVE ReplaceItems(_, _)
ReplaceItems(html, items) ==
    IF items = <<>> THEN html
    ELSE ReplaceItems(Replace(html, Token(Head(items)[1]), Head(items)[2]),
                      Tail(items))

fill_static_placeholders(html, prof) == ReplaceItems(html, prof)

\* the value substituted for {{SUMMARY}}
SummaryValue(s) == Strip(s)

\* the value substituted for {{PROJECTS}} and for {{EXPERIENCE}}
ProseValue(s) == Replace(Strip(s), <<"\n">>, <<"<br>">>)

\* the filler with the {{EXPERIENCE}} replacement left out
fill_resume_template_SkipsExperience(tpl, prof, sum, proj, exper, table) ==
    LET h0 == fill_static_placeholders(tpl, prof)
        h1 == Replace(h0, Token("SUMMARY"), SummaryValue(sum))
        h2 == Replace(h1, Token("PROJECTS"), ProseValue(proj))
        h4 == Replace(h2, Token("SKILLS_TABLE"), table)
    IN h4

fill_resume_template(tpl, prof, sum, proj, exper, table) ==
    LET h0 == fill_static_placeholders(tpl, prof)
        h1 == Replace(h0, Token("SUMMARY"), SummaryValue(sum))
        h2 == Replace(h1, Token("PROJECTS"), ProseValue(proj))
        h3 == Replace(h2, Token("EXPERIENCE"), ProseValue(exper))
        h4 == Replace(h3, Token("SKILLS_TABLE"), table)
    IN h4

\* the f-string of build_cover_letter_html
build_cover_letter_html(txt) ==
    <<"\n", "    ", "<html><body>", "\n", "    ", "<div class=\"container\">",
      "\n", "        ", "<h2>Cover Letter</h2>", "\n", "        ", "<p>">>
       \o Replace(txt, <<"\n">>, <<"<br>">>)
       \o <<"</p>", "\n", "    ", "</div>", "\n", "    ", "</body></html>",
            "\n", "    ">>

-----------------------------------------------------------------------------
(* Inputs: configuration files, environment, language-model responses *)

BoundedSeq(S, n) == UNION { [1..k -> S] : k \in 0..n }

MySQL == <<"M", "y", "S", "Q", "L">>
MongoDB == <<"M", "o", "n", "g", "o", "D", "B">>
Java == <<"J", "a", "v", "a">>
JavaScript == <<" ", "J", "a", "v", "a", "S", "c", "r", "i", "p", "t">>

\* skill names of skills.json
SkillPool == {MySQL, MongoDB, Java, JavaScript}

\* strings the extraction puts into the job profile's lists
TermPool ==
    { <<"s", "q", "l">>,
      <<" ", "J", "A", "V", "A">>,
      <<"J", "a", "v", "a", "S", "c", "r", "i", "p", "t">>,
      <<"c">> }

\* skills.json with two categories: the skills before the cut, those after
Catalog(skills, cut) ==
    << <<Key("Databases"), SubSeq(skills, 1, cut)>>,
       <<Key("Languages"), SubSeq(skills, cut + 1, Len(skills))>> >>

Catalogs ==
    { Catalog(skills, cut) :
         <<skills, cut>> \in
            { sc \in BoundedSeq(SkillPool, MaxSkills) \X (0..MaxSkills) :
                 sc[2] <= Len(sc[1]) } }

\* the list fields of a job profile, in the order of the extraction prompt
ListFields ==
    <<"required_skills", "preferred_skills", "tools", "responsibilities",
      "soft_skills", "keywords">>

\* the terms of `entries` (<<field, term>> pairs) that belong to `field`
FieldTerms(entries, field) ==
    LET mine == SelectSeq(entries, LAMBDA e : e[1] = field) IN
       [i \in 1..Len(mine) |-> JStr(mine[i][2])]

\* a job profile holding the given terms; `full` keeps every key of the
\* prompt's schema, otherwise only the lists that hold something are present
ProfileOf(entries, full) ==
    LET lists == [i \in 1..Len(ListFields) |->
                     <<Key(ListFields[i]),
                       JList(FieldTerms(entries, ListFields[i]))>>]
    IN JDict(SelectSeq(lists, LAMBDA it : full \/ it[2].v # <<>>)
               \o (IF full
                   THEN << <<Key("job_title"), JStr(<<>>)>>,
                           <<Key("company_name"), JStr(<<>>)>> >>
                   ELSE <<>>))

FieldSet == { ListFields[i] : i \in 1..Len(ListFields) }

\* required_skills takes every term; every field takes the two terms that
\* decide a catalog skill in one direction of the substring test each
EntryPool ==
    ({"required_skills"} \X TermPool)
       \cup (FieldSet \X { <<" ", "J", "A", "V", "A">>, <<"c">> })

JobProfiles ==
    { ProfileOf(entries, full) :
         <<entries, full>> \in BoundedSeq(EntryPool, MaxTerms) \X BOOLEAN }

\* filtered mappings: no category is empty
TablePool == {MySQL, Java}

NonEmptySkillLists == BoundedSeq(TablePool, MaxTableSkills) \ {<<>>}

FilteredMappings ==
    {<<>>}
      \cup { << <<Key("Databases"), a>> >> : a \in NonEmptySkillLists }
      \cup { << <<Key("Languages"), a>> >> : a \in NonEmptySkillLists }
      \cup { << <<Key("Databases"), ab[1]>>, <<Key("Languages"), ab[2]>> >> :
                ab \in NonEmptySkillLists \X NonEmptySkillLists }

Quoted(s) == <<"\"">> \o s \o <<"\"">>

EmptyList == <<"[", "]">>

\* a response that follows the prompt's schema
WellFormedText ==
    <<"{">> \o Quoted(Key("required_skills")) \o <<":", " ", "[">>
        \o Quoted(<<"s", "q", "l">>) \o <<"]", ",", "\n">>
      \o Quoted(Key("preferred_skills")) \o <<":">> \o EmptyList \o <<",">>
      \o Quoted(Key("tools")) \o <<":">> \o EmptyList \o <<",">>
      \o Quoted(Key("responsibilities")) \o <<":">> \o EmptyList \o <<",">>
      \o Quoted(Key("soft_skills")) \o <<":">> \o EmptyList \o <<",">>
      \o Quoted(Key("keywords")) \o <<":", "[">> \o Quoted(<<"c">>)
        \o <<"]", ",">>
      \o Quoted(Key("job_title")) \o <<":">> \o Quoted(<<"d", "e", "v">>)
        \o <<",">>
      \o Quoted(Key("company_name")) \o <<":">> \o Quoted(<<>>) \o <<"}">>

\* valid JSON, an object, with fields missing
MissingFieldsText ==
    <<"{">> \o Quoted(Key("keywords")) \o <<":", "[">> \o Quoted(<<"c">>)
       \o <<"]", "}">>

\* valid JSON, an object, with a field of the wrong type
WrongTypeText == <<"{">> \o Quoted(Key("tools")) \o <<":", "1", "}">>

\* the schema-following response with prose around it
ChattyText == <<"s", " ">> \o WellFormedText

LongTexts == {WellFormedText, MissingFieldsText, WrongTypeText, ChattyText}

TextAtoms == {"[", "]", "{", "}", "\"", ":", ",", "null", "1", " ", "s"}

ExtractTexts == BoundedSeq(TextAtoms, MaxTextLen) \cup LongTexts

PipelineTexts == LongTexts \cup {<<"[", "]">>, <<"null">>, <<"s">>}

\* the catalog of the pipeline runs
PipelineCatalog ==
    << <<Key("Databases"), <<MySQL, MongoDB>>>>,
       <<Key("Languages"), <<Java, JavaScript>>>>,
       <<Key("Other"), <<>>>> >>

\* prose a generation call returns
ProsePool == { <<"a", "\n", "b">>, <<" ", "a", "\n">> }

\* load_profile(): every key of the dict, FIRST_NAME and LINKEDIN as given
EnvProfile(first, linkedin) ==
    << <<"FIRST_NAME", first>>, <<"LAST_NAME", <<"B">>>>, <<"EMAIL", <<>>>>,
       <<"PHONE", <<>>>>, <<"ADDRESS", <<>>>>, <<"GITHUB", <<>>>>,
       <<"LINKEDIN", linkedin>> >>

\* resume_template.html of the pipeline runs
PipelineTemplate ==
    <<"<h1>">> \o Token("FIRST_NAME") \o <<" ">> \o Token("LAST_NAME")
       \o <<"</h1>", "\n">> \o Token("SUMMARY") \o Token("PROJECTS")
       \o Token("EXPERIENCE") \o Token("SKILLS_TABLE")

\* pieces an enumerated resume_template.html is put together from
TemplateParts ==
    { Token("FIRST_NAME"), Token("SUMMARY"), Token("PROJECTS"),
      Token("EXPERIENCE"), Token("SKILLS_TABLE"), <<"{{">>, <<"x">> }

RECURSIVE Concat(_)
Concat(parts) ==
    IF parts = <<>> THEN <<>> ELSE Head(parts) \o Concat(Tail(parts))

\* a template in which filling one placeholder puts another together
NestedTemplate == <<"{{">> \o Token("FIRST_NAME") \o <<"SUMMARY", "}}">>

Templates ==
    { Concat(parts) : parts \in BoundedSeq(TemplateParts, MaxParts) }
       \cup {NestedTemplate}

\* generated sections, some of them holding a placeholder themselves
SummaryPool == { <<"a", "\n", "b">>, <<" ", "a", "\n">>, Token("PROJECTS") }

ProjectsPool == { <<"p", "\n", "q">>, Token("SUMMARY") }

ExperiencePool == { <<"e", "\n", "f">> }

FirstNamePool == { <<"A">>, <<>> }

TableHtmlPool ==
    { generate_skills_table_html(<< <<Key("Databases"), <<MySQL>>>> >>) }

-----------------------------------------------------------------------------
(* The pipeline: tailor_for_job, one action per step *)

RESUME_PDF == "tailored_resume.pdf"
COVER_PDF == "tailored_cover_letter.pdf"

\* the steps that call the language model, with the function that calls it
LlmSteps == {"extract", "summary", "projects", "experience", "cover"}

Caller(step) ==
    CASE step = "extract" -> "extract_job_profile"
      [] step = "summary" -> "generate_summary"
      [] step = "projects" -> "generate_projects_section"
      [] step = "experience" -> "generate_experience_section"
      [] step = "cover" -> "generate_cover_letter"

\* the steps that read a file: skills.json, projects.json, experience.json,
\* resume_template.html
LoadSteps == {"build", "projects", "experience", "fill"}

\* the state before tailor_for_job runs, but for pc and the inputs
Fresh ==
    /\ job_profile = JNull
    /\ filtered_skills = <<>>
    /\ rows = <<>>
    /\ skills_table_html = <<>>
    /\ summary = <<>>
    /\ projects = <<>>
    /\ experience = <<>>
    /\ cover_letter_text = <<>>
    /\ resume_html = <<>>
    /\ cover_letter_html = <<>>
    /\ files = {}
    /\ calls = <<>>
    /\ failed = ""

Init ==
    /\ pc = "extract"
    /\ text \in PipelineTexts
    /\ master = PipelineCatalog
    /\ template = PipelineTemplate
    /\ profile = EnvProfile(<<"A">>, <<>>)
    /\ Fresh

\* the extraction asking the language model again after a response that is
\* not JSON
ExtractJobProfile_Retries ==
    /\ pc = "extract"
    /\ calls' = IF JsonLoadsRaises(text)
                THEN calls \o <<Caller("extract"), Caller("extract")>>
                ELSE Append(calls, Caller("extract"))
    /\ pc' = "build"
    /\ job_profile' = extract_job_profile(text).value
    /\ UNCHANGED <<text, master, filtered_skills, rows, skills_table_html,
                   summary, projects, experience, cover_letter_text, template,
                   profile, resume_html, cover_letter_html, files>>
    /\ UNCHANGED failed

\* job_profile = extract_job_profile(job_posting)
ExtractJobProfile ==
    /\ pc = "extract"
    /\ calls' = Append(calls, Caller("extract"))
    /\ LET out == extract_job_profile(text) IN
          IF out.raised
          THEN pc' = "aborted" /\ failed' = pc /\ UNCHANGED job_profile
          ELSE pc' = "build" /\ job_profile' = out.value /\ UNCHANGED failed
    /\ UNCHANGED <<text, master, filtered_skills, rows, skills_table_html,
                   summary, projects, experience, cover_letter_text, template,
                   profile, resume_html, cover_letter_html, files>>

\* filtered_skills = build_relevant_skills(job_profile)
BuildRelevantSkills ==
    /\ pc = "build"
    /\ IF JobTermsRaise(job_profile)
       THEN pc' = "aborted" /\ failed' = pc /\ UNCHANGED filtered_skills
       ELSE /\ pc' = "table"
            /\ filtered_skills' = build_relevant_skills(job_profile, master)
            /\ UNCHANGED failed
    /\ UNCHANGED <<text, job_profile, master, rows, skills_table_html, summary,
                   projects, experience, cover_letter_text, template, profile,
                   resume_html, cover_letter_html, files, calls>>

\* skills_table_html = generate_skills_table_html(filtered_skills)
GenerateSkillsTableHtml ==
    /\ pc = "table"
    /\ pc' = "summary"
    /\ rows' = TableRows(filtered_skills)
    /\ skills_table_html' = generate_skills_table_html(filtered_skills)
    /\ UNCHANGED <<text, job_profile, master, filtered_skills, summary,
                   projects, experience, cover_letter_text, template, profile,
                   resume_html, cover_letter_html, files, calls>>
    /\ UNCHANGED failed

\* summary = generate_summary(job_profile)
GenerateSummary ==
    /\ pc = "summary"
    /\ pc' = "projects"
    /\ calls' = Append(calls, Caller("summary"))
    /\ summary' \in ProsePool
    /\ UNCHANGED <<text, job_profile, master, filtered_skills, rows,
                   skills_table_html, projects, experience, cover_letter_text,
                   template, profile, resume_html, cover_letter_html, files>>
    /\ UNCHANGED failed

\* projects = generate_projects_section(job_profile)
GenerateProjectsSection ==
    /\ pc = "projects"
    /\ pc' = "experience"
    /\ calls' = Append(calls, Caller("projects"))
    /\ projects' \in ProsePool
    /\ UNCHANGED <<text, job_profile, master, filtered_skills, rows,
                   skills_table_html, summary, experience, cover_letter_text,
                   template, profile, resume_html, cover_letter_html, files>>
    /\ UNCHANGED failed

\* experience = generate_experience_section(job_profile)
GenerateExperienceSection ==
    /\ pc = "experience"
    /\ pc' = "cover"
    /\ calls' = Append(calls, Caller("experience"))
    /\ experience' \in ProsePool
    /\ UNCHANGED <<text, job_profile, master, filtered_skills, rows,
                   skills_table_html, summary, projects, cover_letter_text,
                   template, profile, resume_html, cover_letter_html, files>>
    /\ UNCHANGED failed

\* cover_letter_text = generate_cover_letter(job_profile)
GenerateCoverLetter ==
    /\ pc = "cover"
    /\ pc' = "fill"
    /\ calls' = Append(calls, Caller("cover"))
    /\ cover_letter_text' \in ProsePool
    /\ UNCHANGED <<text, job_profile, master, filtered_skills, rows,
                   skills_table_html, summary, projects, experience, template,
                   profile, resume_html, cover_letter_html, files>>
    /\ UNCHANGED failed

\* ollama.chat raises inside call_llm: the call was made, nothing catches it
CallLlmRaises ==
    /\ pc \in LlmSteps
    /\ pc' = "aborted"
    /\ failed' = pc
    /\ calls' = Append(calls, Caller(pc))
    /\ UNCHANGED <<text, job_profile, master, filtered_skills, rows,
                   skills_table_html, summary, projects, experience,
                   cover_letter_text, template, profile, resume_html,
                   cover_letter_html, files>>

\* a file is missing or malformed: read_text or json.loads raises
LoadRaises ==
    /\ pc \in LoadSteps
    /\ pc' = "aborted"
    /\ failed' = pc
    /\ UNCHANGED <<text, job_profile, master, filtered_skills, rows,
                   skills_table_html, summary, projects, experience,
                   cover_letter_text, template, profile, resume_html,
                   cover_letter_html, files, calls>>

\* resume_html = fill_resume_template(summary, projects, experience, ...)
FillResumeTemplate ==
    /\ pc = "fill"
    /\ pc' = "cover_html"
    /\ resume_html' = fill_resume_template(template, profile, summary,
                                           projects, experience,
                                           skills_table_html)
    /\ UNCHANGED <<text, job_profile, master, filtered_skills, rows,
                   skills_table_html, summary, projects, experience,
                   cover_letter_text, template, profile, cover_letter_html,
                   files, calls>>
    /\ UNCHANGED failed

\* cover_letter_html = build_cover_letter_html(cover_letter_text, job_profile)
BuildCoverLetterHtml ==
    /\ pc = "cover_html"
    /\ pc' = "pdf_resume"
    /\ cover_letter_html' = build_cover_letter_html(cover_letter_text)
    /\ UNCHANGED <<text, job_profile, master, filtered_skills, rows,
                   skills_table_html, summary, projects, experience,
                   cover_letter_text, template, profile, resume_html, files,
                   calls>>
    /\ UNCHANGED failed

\* the first rendering writing its file under the second one's name
HtmlToPdfResume_WrongPath ==
    /\ pc = "pdf_resume"
    /\ pc' = "pdf_cover"
    /\ files' = files \cup {COVER_PDF}
    /\ UNCHANGED <<text, job_profile, master, filtered_skills, rows,
                   skills_table_html, summary, projects, experience,
                   cover_letter_text, template, profile, resume_html,
                   cover_letter_html, calls>>
    /\ UNCHANGED failed

\* html_to_pdf(resume_html, "tailored_resume.pdf") returns
HtmlToPdfResume ==
    /\ pc = "pdf_resume"
    /\ pc' = "pdf_cover"
    /\ files' = files \cup {RESUME_PDF}
    /\ UNCHANGED <<text, job_profile, master, filtered_skills, rows,
                   skills_table_html, summary, projects, experience,
                   cover_letter_text, template, profile, resume_html,
                   cover_letter_html, calls>>
    /\ UNCHANGED failed

\* html_to_pdf(cover_letter_html, "tailored_cover_letter.pdf") returns, and
\* the closing print
HtmlToPdfCover ==
    /\ pc = "pdf_cover"
    /\ pc' = "done"
    /\ files' = files \cup {COVER_PDF}
    /\ UNCHANGED <<text, job_profile, master, filtered_skills, rows,
                   skills_table_html, summary, projects, experience,
                   cover_letter_text, template, profile, resume_html,
                   cover_letter_html, calls>>
    /\ UNCHANGED failed

\* pdfkit.from_string raises; the rendering engine may or may not have
\* written its output file by then
HtmlToPdfRaises ==
    /\ pc \in {"pdf_resume", "pdf_cover"}
    /\ pc' = "aborted"
    /\ failed' = pc
    /\ \E written \in BOOLEAN :
          files' = IF written
                   THEN files \cup {IF pc = "pdf_resume" THEN RESUME_PDF
                                                         ELSE COVER_PDF}
                   ELSE files
    /\ UNCHANGED <<text, job_profile, master, filtered_skills, rows,
                   skills_table_html, summary, projects, experience,
                   cover_letter_text, template, profile, resume_html,
                   cover_letter_html, calls>>

Next ==
    \/ ExtractJobProfile
    \/ BuildRelevantSkills
    \/ GenerateSkillsTableHtml
    \/ GenerateSummary
    \/ GenerateProjectsSection
    \/ GenerateExperienceSection
    \/ GenerateCoverLetter
    \/ CallLlmRaises
    \/ LoadRaises
    \/ FillResumeTemplate
    \/ BuildCoverLetterHtml
    \/ HtmlToPdfResume
    \/ HtmlToPdfCover
    \/ HtmlToPdfRaises

Spec == Init /\ [][Next]_vars

-----------------------------------------------------------------------------
(* extract_job_profile over many language-model responses, followed by the *)
(* filter that consumes its result                                         *)

InitExtract ==
    /\ pc = "extract"
    /\ text \in ExtractTexts
    /\ master = PipelineCatalog
    /\ template = PipelineTemplate
    /\ profile = EnvProfile(<<"A">>, <<>>)
    /\ Fresh

NextExtract == ExtractJobProfile \/ BuildRelevantSkills

SpecExtract == InitExtract /\ [][NextExtract]_vars

(* build_relevant_skills over many job profiles and catalogs *)

InitFilter ==
    /\ pc = "build"
    /\ text = <<>>
    /\ job_profile \in JobProfiles
    /\ master \in Catalogs
    /\ template = PipelineTemplate
    /\ profile = EnvProfile(<<"A">>, <<>>)
    /\ filtered_skills = <<>>
    /\ rows = <<>>
    /\ skills_table_html = <<>>
    /\ summary = <<>>
    /\ projects = <<>>
    /\ experience = <<>>
    /\ cover_letter_text = <<>>
    /\ resume_html = <<>>
    /\ cover_letter_html = <<>>
    /\ files = {}
    /\ calls = <<Caller("extract")>>
    /\ failed = ""

NextFilter == BuildRelevantSkills

SpecFilter == InitFilter /\ [][NextFilter]_vars

(* generate_skills_table_html over many filtered mappings *)

InitTable ==
    /\ pc = "table"
    /\ text = <<>>
    /\ job_profile = DefaultProfile
    /\ master = PipelineCatalog
    /\ template = PipelineTemplate
    /\ profile = EnvProfile(<<"A">>, <<>>)
    /\ filtered_skills \in FilteredMappings
    /\ rows = <<>>
    /\ skills_table_html = <<>>
    /\ summary = <<>>
    /\ projects = <<>>
    /\ experience = <<>>
    /\ cover_letter_text = <<>>
    /\ resume_html = <<>>
    /\ cover_letter_html = <<>>
    /\ files = {}
    /\ calls = <<Caller("extract")>>
    /\ failed = ""

NextTable == GenerateSkillsTableHtml

SpecTable == InitTable /\ [][NextTable]_vars

(* fill_resume_template over many templates and generated sections *)

InitFill ==
    /\ pc = "fill"
    /\ text = <<>>
    /\ job_profile = DefaultProfile
    /\ master = PipelineCatalog
    /\ template \in Templates
    /\ profile \in { EnvProfile(first, <<>>) : first \in FirstNamePool }
    /\ filtered_skills = << <<Key("Databases"), <<MySQL>>>> >>
    /\ rows = TableRows(filtered_skills)
    /\ skills_table_html \in TableHtmlPool
    /\ summary \in SummaryPool
    /\ projects \in ProjectsPool
    /\ experience \in ExperiencePool
    /\ cover_letter_text = <<"a">>
    /\ resume_html = <<>>
    /\ cover_letter_html = <<>>
    /\ files = {}
    /\ calls = <<Caller("extract"), Caller("summary"), Caller("projects"),
                 Caller("experience"), Caller("cover")>>
    /\ failed = ""

NextFill == FillResumeTemplate

SpecFill == InitFill /\ [][NextFill]_vars

-----------------------------------------------------------------------------
(* Properties of build_relevant_skills, checked under SpecFilter *)

\* a is a substring of b: b is some prefix, then a, then some suffix
IsSubstring(a, b) ==
    \E i \in 0..Len(b) : \E j \in i..Len(b) : SubSeq(b, i + 1, j) = a

\* s lower-cased, then cut down to its first and last non-blank character
LowerTrimmed(s) ==
    LET low == [i \in 1..Len(s) |-> LowerChar(s[i])]
        solid == { i \in 1..Len(s) : low[i] \notin Whitespace }
    IN IF solid = {} THEN <<>>
       ELSE SubSeq(low, CHOOSE i \in solid : \A j \in solid : i <= j,
                        CHOOSE i \in solid : \A j \in solid : j <= i)

\* the strings of one list field of a job profile, {} when the key is absent
FieldStrings(jp, field) ==
    IF DictHas(jp, Key(field))
    THEN { DictAt(jp, Key(field)).v[i].v :
              i \in 1..Len(DictAt(jp, Key(field)).v) }
    ELSE {}

\* the job terms as the specification words them
StatedTerms(jp) ==
    { LowerTrimmed(x) :
         x \in FieldStrings(jp, "required_skills")
                 \cup FieldStrings(jp, "preferred_skills")
                 \cup FieldStrings(jp, "tools")
                 \cup FieldStrings(jp, "keywords") }

\* the retention rule as the specification words it
StatedRetained(skill, jp) ==
    \/ \E term \in StatedTerms(jp) :
          \/ IsSubstring(LowerTrimmed(skill), term)
          \/ IsSubstring(term, LowerTrimmed(skill))
    \/ LowerTrimmed(skill) \in ALWAYS_KEEP

\* the skills the output lists under a category name
OutputSkills(filtered, name) ==
    UNION { { filtered[c][2][k] : k \in 1..Len(filtered[c][2]) } :
              c \in { d \in 1..Len(filtered) : filtered[d][1] = name } }

\* a job profile with responsibilities and soft_skills taken out
WithoutUnreadFields(jp) ==
    JDict(SelectSeq(jp.v, LAMBDA it : it[1] \notin {Key("responsibilities"),
                                                    Key("soft_skills")}))

\* xs is ys with some entries left out, the order kept
RECURSIVE IsSubsequence(_, _)
IsSubsequence(xs, ys) ==
    IF xs = <<>> THEN TRUE
    ELSE IF ys = <<>> THEN FALSE
    ELSE IF Head(xs) = Head(ys) THEN IsSubsequence(Tail(xs), Tail(ys))
    ELSE IsSubsequence(xs, Tail(ys))

CategoryNames(mapping) == [c \in 1..Len(mapping) |-> mapping[c][1]]

\* the skill list a mapping holds under a category name
SkillsUnder(mapping, name) ==
    mapping[CHOOSE c \in 1..Len(mapping) : mapping[c][1] = name][2]

\* C5: a catalog skill is retained if and only if its lower-cased, trimmed
\* form is a substring of some job term, or some job term is a substring of
\* it, or it is on the always-keep list; the job terms are the lower-cased,
\* trimmed strings of required_skills, preferred_skills, tools and keywords,
\* so responsibilities and soft_skills never change the result.
C5_RetainedIffStatedRule ==
    pc = "table" =>
       /\ \A c \in 1..Len(master) : \A k \in 1..Len(master[c][2]) :
             (master[c][2][k] \in OutputSkills(filtered_skills, master[c][1]))
                <=> StatedRetained(master[c][2][k], job_profile)
       /\ filtered_skills =
             build_relevant_skills(WithoutUnreadFields(job_profile), master)

\* a skill is kept through a term match alone and another is dropped
C5_Witness ==
    /\ pc = "table"
    /\ \E c \in 1..Len(master) : \E k \in 1..Len(master[c][2]) :
          /\ master[c][2][k] \in OutputSkills(filtered_skills, master[c][1])
          /\ LowerTrimmed(master[c][2][k]) \notin ALWAYS_KEEP
    /\ \E c \in 1..Len(master) : \E k \in 1..Len(master[c][2]) :
          master[c][2][k] \notin OutputSkills(filtered_skills, master[c][1])
    /\ StatedTerms(job_profile) # {}

\* the term set of a job profile is empty: each of the four lists is empty
\* or absent
EmptyTermSet(jp) ==
    \A k \in 1..Len(TermKeys) :
       ~DictHas(jp, Key(TermKeys[k])) \/ DictAt(jp, Key(TermKeys[k])).v = <<>>

\* the always-kept skills of a skill list, in its order
AlwaysKept(skills) ==
    SelectSeq(skills, LAMBDA skill : LowerTrimmed(skill) \in ALWAYS_KEEP)

\* C6: for a job profile whose term set is empty the result holds exactly the
\* catalog skills that are on the always-keep list, and the call raises no
\* error.
C6_EmptyTermsKeepAlwaysKeptOnly ==
    (pc # "build" /\ EmptyTermSet(job_profile)) =>
       /\ pc = "table"
       /\ \A c \in 1..Len(master) :
             IF AlwaysKept(master[c][2]) = <<>>
             THEN \A d \in 1..Len(filtered_skills) :
                     filtered_skills[d][1] # master[c][1]
             ELSE /\ \E d \in 1..Len(filtered_skills) :
                        filtered_skills[d][1] = master[c][1]
                  /\ SkillsUnder(filtered_skills, master[c][1])
                        = AlwaysKept(master[c][2])
       /\ \A d \in 1..Len(filtered_skills) :
             \E c \in 1..Len(master) : master[c][1] = filtered_skills[d][1]

\* the term set is empty, an always-kept skill is kept and another skill of
\* the catalog is dropped
C6_Witness ==
    /\ pc = "table"
    /\ EmptyTermSet(job_profile)
    /\ filtered_skills # <<>>
    /\ \E c \in 1..Len(master) : \E k \in 1..Len(master[c][2]) :
          LowerTrimmed(master[c][2][k]) \notin ALWAYS_KEEP

\* the state part of C7
OrderPreservingRestriction ==
    pc = "table" =>
       /\ IsSubsequence(CategoryNames(filtered_skills), CategoryNames(master))
       /\ \A d \in 1..Len(filtered_skills) :
             /\ filtered_skills[d][2] # <<>>
             /\ \A e \in 1..Len(filtered_skills) :
                   filtered_skills[e][1] = filtered_skills[d][1] => e = d
             /\ IsSubsequence(filtered_skills[d][2],
                              SkillsUnder(master, filtered_skills[d][1]))

\* C7: the result is an order-preserving restriction of the catalog: every
\* category and skill of the output occurs in the catalog under the same
\* category, categories and skills keep the catalog's relative order, no
\* output category is empty, and the master catalog is left unchanged.
C7_OrderPreservingRestriction ==
    [] OrderPreservingRestriction /\ [][master' = master]_vars

\* the first skill of a two-skill category is dropped and the second kept,
\* while the other category is left out of the result
C7_Witness ==
    /\ pc = "table"
    /\ Len(filtered_skills) = 1
    /\ \E c \in 1..Len(master) :
          /\ master[c][1] = filtered_skills[1][1]
          /\ Len(master[c][2]) = 2
          /\ filtered_skills[1][2] = <<master[c][2][2]>>
          /\ master[c][2][1] # master[c][2][2]

-----------------------------------------------------------------------------
(* Properties of generate_skills_table_html, checked under SpecTable *)

\* ceil(n / 2)
HalfUp(n) == (n + 1) \div 2

\* the number of rows the categories before the c-th one take
RECURSIVE RowsBefore(_, _)
RowsBefore(mapping, c) ==
    IF c <= 1 THEN 0
    ELSE RowsBefore(mapping, c - 1) + 1 + HalfUp(Len(mapping[c - 1][2]))

\* C8: per category, in mapping order, one category header row and then
\* ceil(N/2) skill rows holding two consecutive skills each; when N is odd the
\* last row holds the last skill on the left and an empty right cell; the row
\* count is the number of categories plus the sum of ceil(N/2).
C8_TableRows ==
    pc = "summary" =>
       /\ Len(rows) = RowsBefore(filtered_skills, Len(filtered_skills) + 1)
       /\ \A c \in 1..Len(filtered_skills) :
             LET base == RowsBefore(filtered_skills, c) + 1
                 skills == filtered_skills[c][2]
             IN /\ rows[base] = CategoryRow(filtered_skills[c][1])
                /\ \A j \in 1..HalfUp(Len(skills)) :
                      rows[base + j] =
                         SkillRow(skills[2 * j - 1],
                                  IF 2 * j <= Len(skills) THEN skills[2 * j]
                                                          ELSE <<>>)
       /\ skills_table_html
             = <<"<table>", "\n">> \o JoinLines(rows) \o <<"\n", "</table>">>

\* two categories were rendered, one with an odd and one with an even number
\* of skills
C8_Witness ==
    /\ pc = "summary"
    /\ Len(filtered_skills) = 2
    /\ Len(filtered_skills[1][2]) = 3
    /\ Len(filtered_skills[2][2]) = 2
    /\ Len(rows) = 5

-----------------------------------------------------------------------------
(* Properties of extract_job_profile, checked under SpecExtract *)

\* the record the specification names: all six lists empty, both strings ""
AllEmptyRecord ==
    [t |-> "dict",
     v |-> << <<<<"required_skills">>, [t |-> "list", v |-> <<>>]>>,
              <<<<"preferred_skills">>, [t |-> "list", v |-> <<>>]>>,
              <<<<"tools">>, [t |-> "list", v |-> <<>>]>>,
              <<<<"responsibilities">>, [t |-> "list", v |-> <<>>]>>,
              <<<<"soft_skills">>, [t |-> "list", v |-> <<>>]>>,
              <<<<"keywords">>, [t |-> "list", v |-> <<>>]>>,
              <<<<"job_title">>, [t |-> "str", v |-> <<>>]>>,
              <<<<"company_name">>, [t |-> "str", v |-> <<>>]>> >>]

\* responses that are not JSON: empty, bare prose, an unclosed bracket or
\* string, text after the value, a trailing comma, prose before the object
KnownUnparsable ==
    { <<>>, <<"s">>, <<"[">>, <<"\"", "s">>, <<"{", "}", "s">>,
      <<"[", ",", "]">>, <<"{", "\"", "\"">>, ChattyText }

\* C2: if the text the language model returned cannot be parsed as JSON,
\* extract_job_profile returns exactly the all-empty default record and no
\* exception escapes it.
C2_UnparsableGivesDefault ==
    (pc # "extract" /\ (JsonLoadsRaises(text) \/ text \in KnownUnparsable)) =>
       /\ pc \in {"build", "table"}
       /\ job_profile = AllEmptyRecord

\* extract_job_profile has returned for a response that is not JSON
C2_Witness ==
    /\ pc = "build"
    /\ text = <<"\"", "s">>
    /\ job_profile = AllEmptyRecord

\* v is a job-profile record: the six lists of strings and the two strings
IsJobProfile(v) ==
    /\ v.t = "dict"
    /\ \A i \in 1..Len(ListFields) :
          /\ DictHas(v, Key(ListFields[i]))
          /\ DictAt(v, Key(ListFields[i])).t = "list"
          /\ \A k \in 1..Len(DictAt(v, Key(ListFields[i])).v) :
                DictAt(v, Key(ListFields[i])).v[k].t = "str"
    /\ \A name \in {"job_title", "company_name"} :
          /\ DictHas(v, Key(name))
          /\ DictAt(v, Key(name)).t = "str"

\* C3: the value extract_job_profile returns is always a job-profile record;
\* a response that parses as JSON but is no such record (a list, a number,
\* null, an object with missing or wrongly typed fields) gives the all-empty
\* record instead.
C3_AlwaysJobProfile ==
    pc # "extract" =>
       /\ IsJobProfile(job_profile)
       /\ (~IsJobProfile(JsonLoads(text)) => job_profile = AllEmptyRecord)

-----------------------------------------------------------------------------
(* Properties of tailor_for_job, checked under Spec *)

BothPdfs == {RESUME_PDF, COVER_PDF}

\* C1 as stated: there is no partial-success state: either both PDFs are
\* produced, or the run aborts with an unhandled failure and no output file
\* has been written; in particular a failure of the second html_to_pdf call
\* does not leave the first PDF written.  (What a failing first html_to_pdf
\* call leaves behind is the rendering engine's doing and is left aside.)
C1_NoPartialSuccess ==
    /\ pc = "done" => files = BothPdfs
    /\ (pc = "aborted" /\ failed # "pdf_resume") => files = {}

\* C1 as amended: a completed run has produced both PDFs; a run aborted
\* before the first html_to_pdf call has written no output file; a run
\* aborted by the second html_to_pdf call leaves tailored_resume.pdf written
\* (a partial success); tailored_cover_letter.pdf is never written unless
\* tailored_resume.pdf was written before it.
C1_OutputsOfARun ==
    /\ pc = "done" => files = BothPdfs
    /\ (pc = "aborted" /\ failed \notin {"pdf_resume", "pdf_cover"})
          => files = {}
    /\ (pc = "aborted" /\ failed = "pdf_cover") => RESUME_PDF \in files
    /\ pc \notin {"pdf_cover", "done", "aborted"} => files = {}
    /\ pc = "pdf_cover" => files = {RESUME_PDF}
    /\ COVER_PDF \in files => RESUME_PDF \in files

\* the run aborted in the second html_to_pdf call with the resume written
C1_Witness ==
    /\ pc = "aborted"
    /\ failed = "pdf_cover"
    /\ files = {RESUME_PDF}

\* the calls of a run that gets through the generation steps
FullCalls ==
    <<"extract_job_profile", "generate_summary", "generate_projects_section",
      "generate_experience_section", "generate_cover_letter">>

\* the steps after the last language-model call
AfterGeneration == {"fill", "cover_html", "pdf_resume", "pdf_cover", "done"}

\* C10 as stated: the language model is called once for extraction and then
\* exactly three more times, all before any template is filled or any PDF is
\* rendered.
C10_ThreeMoreCalls ==
    pc \in AfterGeneration =>
       /\ calls[1] = "extract_job_profile"
       /\ Len(calls) = 1 + 3

\* C10 as amended: a run that reaches template filling has called the
\* language model exactly five times, once for extraction and then four more
\* times (summary, projects, experience, cover letter); no call is ever
\* repeated, the calls come one after another in that order, and all five are
\* made before any template is filled or any PDF is rendered.
C10_FourMoreCalls ==
    /\ Len(calls) <= Len(FullCalls)
    /\ calls = SubSeq(FullCalls, 1, Len(calls))
    /\ pc \in AfterGeneration => calls = FullCalls
    /\ (resume_html # <<>> \/ cover_letter_html # <<>> \/ files # {})
          => calls = FullCalls

\* a run whose extraction response was not JSON is complete, after five calls
C10_Witness ==
    /\ pc = "done"
    /\ JsonLoadsRaises(text)
    /\ Len(calls) = 5
    /\ files = BothPdfs

-----------------------------------------------------------------------------
(* Properties of fill_resume_template, checked under SpecFill *)

\* every key that has a placeholder, in the order the code substitutes them
KnownKeys ==
    ProfileKeys \o <<"SUMMARY", "PROJECTS", "EXPERIENCE", "SKILLS_TABLE">>

\* the <<key, value>> pairs the code substitutes, in its order
Substitutions ==
    profile \o << <<"SUMMARY", SummaryValue(summary)>>,
                  <<"PROJECTS", ProseValue(projects)>>,
                  <<"EXPERIENCE", ProseValue(experience)>>,
                  <<"SKILLS_TABLE", skills_table_html>> >>

\* other orders of substitution: the code's order with two keys exchanged,
\* and the code's order reversed
Orders ==
    { [k \in 1..Len(KnownKeys) |-> IF k = ij[1] THEN ij[2]
                                   ELSE IF k = ij[2] THEN ij[1] ELSE k] :
         ij \in (1..Len(KnownKeys)) \X (1..Len(KnownKeys)) }
      \cup { [k \in 1..Len(KnownKeys) |-> Len(KnownKeys) + 1 - k] }

InOrder(perm) == [k \in 1..Len(KnownKeys) |-> Substitutions[perm[k]]]

HasAtom(s, a) == \E i \in 1..Len(s) : s[i] = a

NoTokenLeft(html) ==
    \A k \in 1..Len(KnownKeys) : ~Contains(Token(KnownKeys[k]), html)

SameInEveryOrder ==
    \A perm \in Orders : ReplaceItems(template, InOrder(perm)) = resume_html

WellFormedTemplate(tpl) ==
    \A i \in 1..Len(tpl) :
       /\ tpl[i] = "{{" =>
             /\ i + 2 <= Len(tpl)
             /\ \E k \in 1..Len(KnownKeys) : tpl[i + 1] = KnownKeys[k]
             /\ tpl[i + 2] = "}}"
       /\ tpl[i] = "}}" => (i > 2 /\ tpl[i - 2] = "{{")

\* no substituted value holds "{{" or "}}"
BraceFreeValues ==
    \A k \in 1..Len(Substitutions) :
       /\ ~HasAtom(Substitutions[k][2], "{{")
       /\ ~HasAtom(Substitutions[k][2], "}}")

C9_NoNewlineFromSections ==
    ( /\ pc = "cover_html"
      /\ ~HasAtom(template, "\n")
      /\ ~HasAtom(template, "SKILLS_TABLE")
      /\ \A k \in 1..Len(profile) : ~HasAtom(profile[k][2], "\n")
      /\ \A sec \in {summary, projects, experience} :
            ~HasAtom(sec, "SKILLS_TABLE") )
       => ~HasAtom(resume_html, "\n")

====
